---- MODULE Spec2Model ----
(***************************************************************************)
(* Model of the sign-xpi lambda (apex/functions/sign-xpi/sign_xpi.py):     *)
(* one invocation of handle(event, context), stepped through validation,   *)
(* retrieval, checksum verification, the Autograph signing call, signature *)
(* embedding and the upload to the output bucket.                          *)
(*                                                                         *)
(* Strings are sequences of tokens.  The characters the code splits on     *)
(* ("/", ".", ";", "=", the double quote and the space) are tokens of      *)
(* their own; every other token is a run of characters free of them.       *)
(* Python dicts are functions whose DOMAIN is the set of keys present.     *)
(***************************************************************************)
EXTENDS Integers, Sequences, FiniteSets, TLC

\* ------------------------------------------------------------------ bounds
MaxBody == 3          \* longest package body, in bytes

\* CHUNK_SIZE = 512 * 1024, scaled down to the size of the modelled bodies
CHUNK_SIZE == 2

Bytes == {1, 2}

\* ------------------------------------------------------- string primitives
EmptyDict == <<>>

\* dict.get(k) is truthy: the key is present and its value is not ''
Truthy(d, k) == k \in DOMAIN d /\ d[k] # <<>>

\* indices of the token c in s
Positions(s, c) == {i \in 1..Len(s) : s[i] = c}

SetMax(S) == CHOOSE m \in S : \A x \in S : x <= m

SetMin(S) == CHOOSE m \in S : \A x \in S : m <= x

\* str.rsplit(sep, 1): one piece when sep does not occur, else two
rsplit1(s, sep) ==
  IF Positions(s, sep) = {}
  THEN <<s>>
  ELSE LET i == SetMax(Positions(s, sep))
       IN <<SubSeq(s, 1, i - 1), SubSeq(s, i + 1, Len(s))>>

\* str.split(sep, 1): one piece when sep does not occur, else two
split1(s, sep) ==
  IF Positions(s, sep) = {}
  THEN <<s>>
  ELSE LET i == SetMin(Positions(s, sep))
       IN <<SubSeq(s, 1, i - 1), SubSeq(s, i + 1, Len(s))>>

\* str.strip(c): drop the leading and trailing run of c
strip(s, c) ==
  LET keep == {i \in 1..Len(s) : s[i] # c}
  IN IF keep = {} THEN <<>> ELSE SubSeq(s, SetMin(keep), SetMax(keep))

\* os.path.splitext(p): the extension starts at the last "." of the last
\* path component, unless that component has only dots before it
splitext(p) ==
  LET sepIndex == IF Positions(p, "/") = {} THEN 0 ELSE SetMax(Positions(p, "/"))
      dotIndex == IF Positions(p, ".") = {} THEN 0 ELSE SetMax(Positions(p, "."))
  IN IF dotIndex > sepIndex
        /\ \E i \in (sepIndex + 1)..(dotIndex - 1) : p[i] # "."
     THEN <<SubSeq(p, 1, dotIndex - 1), SubSeq(p, dotIndex, Len(p))>>
     ELSE <<p, <<>>>>

\* str.split(sep): every piece between occurrences of sep
RECURSIVE split(_, _)
split(s, sep) ==
  IF Positions(s, sep) = {}
  THEN <<s>>
  ELSE LET i == SetMin(Positions(s, sep))
       IN <<SubSeq(s, 1, i - 1)>> \o split(SubSeq(s, i + 1, Len(s)), sep)

\* rfc822.unquote(s): drop one pair of enclosing double quotes or angle
\* brackets
unquote(s) ==
  IF Len(s) > 1 /\ s[1] = "\"" /\ s[Len(s)] = "\""
  THEN SubSeq(s, 2, Len(s) - 1)
  ELSE IF Len(s) > 1 /\ s[1] = "<" /\ s[Len(s)] = ">"
       THEN SubSeq(s, 2, Len(s) - 1)
       ELSE s

\* ------------------------------------------------------------ file objects
\* a write that leaves the position where it was
write_no_advance(f, data) ==
  [f EXCEPT !.content = SubSeq(f.content, 1, f.pos) \o data
                          \o SubSeq(f.content, f.pos + Len(data) + 1, Len(f.content))]

\* file.write(data) at the current position
write(f, data) ==
  [f EXCEPT !.content = SubSeq(f.content, 1, f.pos) \o data
                          \o SubSeq(f.content, f.pos + Len(data) + 1, Len(f.content)),
            !.pos = f.pos + Len(data)]

\* a seek that does not move
seek_nowhere(f, offset) == f

\* file.seek(offset)
seek(f, offset) == [f EXCEPT !.pos = offset]

\* what file.read() returns: everything from the current position on
read(f) == SubSeq(f.content, f.pos + 1, Len(f.content))

\* the file after file.read(): positioned at its end
afterRead(f) == [f EXCEPT !.pos = IF f.pos > Len(f.content) THEN f.pos ELSE Len(f.content)]

\* ------------------------------------------------------------- the digest
HexDigits == <<"0", "1", "2", "3", "4", "5", "6", "7",
               "8", "9", "a", "b", "c", "d", "e", "f">>

\* hashlib.sha256().update(data): a stand-in 8-bit digest of the bytes
RECURSIVE sha256(_)
sha256(data) ==
  IF data = <<>> THEN 171
  ELSE (sha256(SubSeq(data, 1, Len(data) - 1)) * 7 + data[Len(data)] + 1) % 256

\* h.hexdigest(): lower-case hexadecimal digits, most significant first
hexdigest(n) == <<HexDigits[(n \div 16) + 1], HexDigits[(n % 16) + 1]>>

\* compute_checksum(contents): digest of what read() returns, which is the
\* file's content from its current position to its end
compute_checksum(f) == hexdigest(sha256(read(f)))

\* ------------------------------------------------------------- validation
Schemes == {"http:", "https:", "ftp:", "ftps:"}

Hosts == {"localhost"}

\* marshmallow.fields.URL: scheme://host, then nothing or a path
ValidURL(u) ==
  /\ Len(u) >= 4
  /\ u[1] \in Schemes
  /\ u[2] = "/"
  /\ u[3] = "/"
  /\ u[4] \in Hosts
  /\ (Len(u) > 4 => u[5] = "/")

\* the validator with the key forgotten
verify_url_or_bucket(data) == Truthy(data, "url") \/ Truthy(data, "bucket")

\* SourceInfo.verify_either_url_or_s3_info: passes when url is set, or when
\* bucket and key are both set
verify_either_url_or_s3_info(data) ==
  \/ Truthy(data, "url")
  \/ (Truthy(data, "bucket") /\ Truthy(data, "key"))

\* SourceInfo: the url field, when given, must be a URL; bucket and key are
\* optional strings; then the schema validator
SourceInfo(data) ==
  /\ ("url" \in DOMAIN data => ValidURL(data["url"]))
  /\ verify_either_url_or_s3_info(data)

\* SignEvent: source is required and nested, checksum is an optional string
SignEvent(data) ==
  /\ "source" \in DOMAIN data
  /\ SourceInfo(data["source"])

AutographFields == {"hawkId", "hawkSecret", "serverUrl", "keyId"}

\* the schema with key_id not required
AutographInfo_optional_key_id(data) == {"hawkId", "hawkSecret", "serverUrl"} \subseteq DOMAIN data

\* AutographInfo: four required strings
AutographInfo(data) == AutographFields \subseteq DOMAIN data

\* Context: autograph (nested) and outputBucket are required
Context(data) ==
  /\ "autograph" \in DOMAIN data
  /\ AutographInfo(data["autograph"])
  /\ "outputBucket" \in DOMAIN data

\* load_from: the loaded data has the attribute name of every field that
\* the input has under its load_from name
Renamed(data, names) ==
  [a \in {names[k] : k \in DOMAIN data \cap DOMAIN names} |->
     data[CHOOSE k \in DOMAIN data \cap DOMAIN names : names[k] = a]]

\* Context(strict=True).load(context).data
ContextData(data) ==
  LET top == Renamed(data, [autograph |-> "autograph", outputBucket |-> "output_bucket"])
  IN IF "autograph" \in DOMAIN top
     THEN [top EXCEPT !["autograph"] =
             Renamed(@, [hawkId |-> "hawk_id", hawkSecret |-> "hawk_secret",
                         serverUrl |-> "server_url", keyId |-> "key_id"])]
     ELSE top

\* ----------------------------------------------------------------- inputs
Url1 == <<"http:", "/", "/", "localhost", "/", "a", ".", "xpi">>

Url2 == <<"http:", "/", "/", "localhost", "/", "d", "/", "b", ".", "xpi", "/">>

BadUrl == <<"a", ".", "xpi">>

Key1 == <<"a", ".", "xpi">>

Key2 == <<"d", "/", "a", ".", "xpi">>

InBucket == <<"in">>

OutBucket == <<"out">>

\* every function from a subset of the keys to the values allowed per key
Dicts(vals) ==
  UNION {{d \in [S -> UNION {vals[k] : k \in S}] : \A k \in S : d[k] \in vals[k]} :
         S \in SUBSET DOMAIN vals}

Sources ==
  Dicts([url |-> {BadUrl, Url1, Url2},
         bucket |-> {<<>>, InBucket},
         key |-> {Key1, Key2}])

\* all package bodies up to MaxBody bytes
Bodies == UNION {[1..n -> Bytes] : n \in 0..MaxBody}

ToUpper(c) ==
  CASE c = "a" -> "A" [] c = "b" -> "B" [] c = "c" -> "C"
    [] c = "d" -> "D" [] c = "e" -> "E" [] c = "f" -> "F"
    [] OTHER -> c

Upper(s) == [i \in 1..Len(s) |-> ToUpper(s[i])]

\* s with its last hex digit replaced by the next one
NextDigit(s) ==
  LET i == CHOOSE j \in 1..16 : HexDigits[j] = s[Len(s)]
  IN [s EXCEPT ![Len(s)] = HexDigits[(i % 16) + 1]]

\* the bodies the caller may have computed the checksum from
ExpectedBodies == {<<>>, <<1, 2>>}

Checksums ==
  {<<>>} \cup UNION {{hexdigest(sha256(b)), Upper(hexdigest(sha256(b))),
                      NextDigit(hexdigest(sha256(b)))} : b \in ExpectedBodies}

Events ==
  {s @@ c : s \in {EmptyDict} \cup {"source" :> x : x \in Sources},
            c \in {EmptyDict} \cup {"checksum" :> x : x \in Checksums}}

Autographs == Dicts([hawkId |-> {<<"alice">>}, hawkSecret |-> {<<"secret">>},
                     serverUrl |-> {<<"http:", "/", "/", "localhost", "/">>}, keyId |-> {<<"extensions-ecdsa">>}])

Contexts ==
  {a @@ b : a \in {EmptyDict} \cup {"autograph" :> x : x \in Autographs},
            b \in {EmptyDict} \cup {"outputBucket" :> x : x \in {<<>>, OutBucket}}}

\* Content-Disposition headers the server may answer with
Attachment(value) == <<"attachment", ";", " ", "filename", "=">> \o value

Headers ==
  {EmptyDict,
   "Content-Disposition" :> Attachment(<<"\"", "pkg", ".", "xpi", "\"">>),
   "Content-Disposition" :> Attachment(<<"p", ".", "xpi">>),
   "Content-Disposition" :> <<"inline", ";", " ", "filename", "=", "x", ".", "xpi">>,
   "Content-Disposition" :> <<"attachment", ";", " ", "foo">>}

\* names tempfile.NamedTemporaryFile() may pick
TmpNames == {<<"/", "tmp", "/", "tmpq1">>, <<"/", "var", ".", "d", "/", "tmpq2">>}

\* ------------------------------------------------------------------ state
VARIABLES
  pc,              \* position in handle()
  event,           \* handle's event: the request, then the loaded data
  context,         \* handle's context: the raw dict, then the loaded data
  localfile,       \* retrieve_xpi's NamedTemporaryFile
  url,             \* retrieve_xpi's local url, None while unbound
  filename,        \* the derived filename
  response,        \* the streamed GET response
  local_checksum,  \* retrieve_xpi's local_checksum
  jar_extractor,   \* sign_xpi's JarExtractor
  resp,            \* sign_xpi's resp: the answer to the POST
  signature,       \* the decoded signature
  signed_xpi,      \* name of the signed output file
  disk,            \* paths that exist on the local disk
  handles,         \* paths of the file objects that are open
  store,           \* objects put into S3 buckets
  calls,           \* calls made on the collaborators, in order
  result           \* what handle() returned or raised

vars == <<pc, event, context, localfile, url, filename, response,
          local_checksum, jar_extractor, resp, signature, signed_xpi,
          disk, handles, store, calls, result>>

None == <<>>

Init ==
  /\ pc = "load_event"
  /\ event \in Events
  /\ context \in Contexts
  /\ localfile = None
  /\ url = None
  /\ filename = None
  /\ response = None
  /\ local_checksum = None
  /\ jar_extractor = None
  /\ resp = None
  /\ signature = None
  /\ signed_xpi = None
  /\ disk = {}
  /\ handles = {}
  /\ store = {}
  /\ calls = <<>>
  /\ result = None

\* an exception propagates out of handle()
Raise(err) ==
  /\ pc' = "raised"
  /\ result' = [raised |-> err]

Call(op, arg) == calls' = Append(calls, [op |-> op, arg |-> arg])

\* line 82: event = SignEvent(strict=True).load(event).data
LoadEvent ==
  /\ pc = "load_event"
  /\ IF SignEvent(event)
     THEN /\ pc' = "load_context"
          /\ UNCHANGED result
     ELSE Raise([type |-> "ValidationError", schema |-> "SignEvent"])
  /\ UNCHANGED <<event, context, localfile, url, filename, response,
                 local_checksum, jar_extractor, resp, signature, signed_xpi,
                 disk, handles, store, calls>>

\* line 83: context = Context(strict=True).load(context).data
LoadContext ==
  /\ pc = "load_context"
  /\ IF Context(context)
     THEN /\ pc' = "tempfile"
          /\ context' = ContextData(context)
          /\ UNCHANGED result
     ELSE /\ Raise([type |-> "ValidationError", schema |-> "Context"])
          /\ UNCHANGED context
  /\ UNCHANGED <<event, localfile, url, filename, response,
                 local_checksum, jar_extractor, resp, signature, signed_xpi,
                 disk, handles, store, calls>>

\* lines 147-152 of extract_response_filename: the loop over the
\* parameters after the disposition type; a parameter without "=" cannot be
\* unpacked into (name, value)
RECURSIVE filenameParameter(_, _)
filenameParameter(parameters, i) ==
  IF i > Len(parameters)
  THEN [raised |-> FALSE, value |-> None]
  ELSE LET nv == split1(strip(parameters[i], " "), "=")
       IN IF Len(nv) # 2
          THEN [raised |-> TRUE, value |-> None]
          ELSE IF nv[1] = <<"filename">>
               THEN [raised |-> FALSE, value |-> unquote(nv[2])]
               ELSE filenameParameter(parameters, i + 1)

\* extract_response_filename(response): the Content-Disposition filename,
\* None when there is none, or a ValueError
extract_response_filename(r) ==
  IF ~Truthy(r.headers, "Content-Disposition")
  THEN [raised |-> FALSE, value |-> None]
  ELSE LET parameters == split(r.headers["Content-Disposition"], ";")
       IN IF strip(parameters[1], " ") # <<"attachment">>
          THEN [raised |-> FALSE, value |-> None]
          ELSE filenameParameter(parameters, 2)

\* the status never looked at
raise_for_status_never(status) == FALSE

\* raising for server errors only
raise_for_server_error(status) == 500 <= status /\ status < 600

\* raising for client errors only
raise_for_client_error(status) == 400 <= status /\ status < 500

\* requests' raise_for_status(): 4xx and 5xx raise
raise_for_status(status) == 400 <= status /\ status < 600

\* the branch taking S3 whenever bucket and key are set
retrieval_branch_s3_first(source) ==
  IF Truthy(source, "bucket") /\ Truthy(source, "key") THEN "s3" ELSE "get"

\* line 113: if source.get('url'): ... else: ...
retrieval_branch(source) == IF Truthy(source, "url") THEN "get" ELSE "s3"

\* line 111: localfile = tempfile.NamedTemporaryFile(), then the branch of
\* line 113 on source.get('url')
NamedTemporaryFile ==
  /\ pc = "tempfile"
  /\ \E name \in TmpNames :
       /\ localfile' = [name |-> name, content |-> <<>>, pos |-> 0]
       /\ disk' = disk \cup {name}
       /\ handles' = handles \cup {name}
       /\ Call("NamedTemporaryFile", name)
  /\ pc' = retrieval_branch(event["source"])
  /\ UNCHANGED <<event, context, url, filename, response, local_checksum,
                 jar_extractor, resp, signature, signed_xpi, store, result>>

\* lines 114-116: requests.get(url, stream=True); response.raise_for_status().
\* response.body is the part of the body not yet read from the stream,
\* response.sent the whole body the server sends
RequestsGet ==
  /\ pc = "get"
  /\ url' = event["source"]["url"]
  /\ Call("GET", url')
  /\ \E status \in {200, 300, 404}, headers \in Headers, body \in Bodies :
       /\ response' = [status |-> status, headers |-> headers,
                        body |-> body, sent |-> body]
       /\ IF raise_for_status(status)
          THEN Raise([type |-> "HTTPError", status |-> status])
          ELSE /\ pc' = "filename"
               /\ UNCHANGED result
  /\ UNCHANGED <<event, context, localfile, filename, local_checksum,
                 jar_extractor, resp, signature, signed_xpi, disk, handles, store>>

\* lines 118-119: the last path segment of the url, overridden by the
\* Content-Disposition filename when there is one
DeriveFilename ==
  /\ pc = "filename"
  /\ LET parts == rsplit1(strip(url, "/"), "/")
         extracted == extract_response_filename(response)
     IN IF Len(parts) # 2 \/ extracted.raised
        THEN /\ Raise([type |-> "ValueError"])
             /\ UNCHANGED filename
        ELSE /\ filename' = IF extracted.value # None THEN extracted.value ELSE parts[2]
             /\ pc' = "write"
             /\ UNCHANGED result
  /\ UNCHANGED <<event, context, localfile, url, response, local_checksum,
                 jar_extractor, resp, signature, signed_xpi, disk, handles, store, calls>>

\* lines 120-121: for chunk in response.iter_content(CHUNK_SIZE):
\*                    localfile.write(chunk)
IterContent ==
  /\ pc = "write"
  /\ IF response.body # <<>>
     THEN LET n == IF Len(response.body) < CHUNK_SIZE THEN Len(response.body) ELSE CHUNK_SIZE
          IN /\ localfile' = write(localfile, SubSeq(response.body, 1, n))
             /\ response' = [response EXCEPT !.body = SubSeq(@, n + 1, Len(@))]
             /\ UNCHANGED pc
     ELSE /\ pc' = "checksum"
          /\ UNCHANGED <<localfile, response>>
  /\ UNCHANGED <<event, context, url, filename, local_checksum, jar_extractor, resp,
                 signature, signed_xpi, disk, handles, store, calls, result>>

\* lines 123-125: (_, filename) = key.rsplit('/', 1)
RsplitKey ==
  /\ pc = "s3"
  /\ LET parts == rsplit1(event["source"]["key"], "/")
     IN IF Len(parts) # 2
        THEN /\ Raise([type |-> "ValueError"])
             /\ UNCHANGED filename
        ELSE /\ filename' = parts[2]
             /\ pc' = "download"
             /\ UNCHANGED result
  /\ UNCHANGED <<event, context, localfile, url, response, local_checksum,
                 jar_extractor, resp, signature, signed_xpi, disk, handles, store, calls>>

\* line 126: bucket.download_fileobj(key, localfile)
DownloadFileobj ==
  /\ pc = "download"
  /\ Call("download_fileobj",
          [bucket |-> event["source"]["bucket"], key |-> event["source"]["key"]])
  /\ \/ /\ Raise([type |-> "ClientError"])
        /\ UNCHANGED localfile
     \/ \E body \in Bodies :
          /\ localfile' = write(localfile, body)
          /\ pc' = "checksum"
          /\ UNCHANGED result
  /\ UNCHANGED <<event, context, url, filename, response, local_checksum,
                 jar_extractor, resp, signature, signed_xpi, disk, handles, store>>

\* the comparison inverted
checksum_differs_inverted(local, expected) == local = expected

\* the comparison left out
checksum_differs_never(local, expected) == FALSE

\* the comparison made on upper-cased strings
checksum_differs_nocase(local, expected) == Upper(local) # Upper(expected)

\* line 130: local_checksum != event['checksum']
checksum_differs(local, expected) == local # expected

\* lines 128-134: seek(0), compute the checksum, compare it with
\* event['checksum'], seek(0) again.  event['checksum'] is a KeyError when
\* the request had no checksum; ChecksumMatchError(url, ...) reads the local
\* url, which only the url branch binds
VerifyChecksum ==
  /\ pc = "checksum"
  /\ LET sought == seek(localfile, 0)
         digest == compute_checksum(sought)
     IN /\ local_checksum' = digest
        /\ IF "checksum" \notin DOMAIN event
           THEN /\ Raise([type |-> "KeyError"])
                /\ localfile' = afterRead(sought)
           ELSE IF checksum_differs(digest, event["checksum"])
                THEN /\ localfile' = afterRead(sought)
                     /\ IF url = None
                        THEN Raise([type |-> "UnboundLocalError"])
                        ELSE Raise([type |-> "ChecksumMatchError",
                                    url |-> url,
                                    expected_checksum |-> event["checksum"],
                                    actual_checksum |-> digest])
                ELSE /\ localfile' = seek(afterRead(sought), 0)
                     /\ pc' = "jar"
                     /\ UNCHANGED result
  /\ UNCHANGED <<event, context, url, filename, response, jar_extractor, resp,
                 signature, signed_xpi, disk, handles, store, calls>>

\* base64.b64encode / b64decode: an encoding distinct from its input
b64encode(x) == <<"b64", x>>

b64decode(x) == x[2]

\* urljoin(server_url, '/sign/data'): scheme and host of server_url, with
\* the absolute path
urljoin_sign_data(server_url) == SubSeq(server_url, 1, 4) \o <<"/", "sign", "/", "data">>

\* get_guid(xpi_file)
get_guid == <<"some-fake-guid@example", ".", "com">>

\* lines 194-195: (localstem, localext) = os.path.splitext(localfile.name);
\* output_file = localstem + '-signed' + localext
output_file(name) == splitext(name)[1] \o <<"-signed">> \o splitext(name)[2]

\* lines 86 and 172: guid = get_guid(localfile); JarExtractor(localfile)
\* reads the package from the file's position and derives the manifest
\* signature input from it, or fails on a package it cannot read
JarExtractor ==
  /\ pc = "jar"
  /\ \/ /\ jar_extractor' = [signature |-> <<"sf", sha256(read(localfile))>>]
        /\ localfile' = afterRead(localfile)
        /\ pc' = "post"
        /\ UNCHANGED result
     \/ /\ Raise([type |-> "BadZipfile"])
        /\ UNCHANGED <<jar_extractor, localfile>>
  /\ UNCHANGED <<event, context, url, filename, response, local_checksum,
                 resp, signature, signed_xpi, disk, handles, store, calls>>

\* the bodies the signing service may answer with
SignResponses == {<<>>, <<[signature |-> b64encode(<<"rsa", 1>>)]>>}

\* the POST repeated when the service answers with an error status
RequestsPost_retry ==
  /\ pc = "post"
  /\ Call("POST", [url |-> urljoin_sign_data(context.autograph.server_url),
                   auth |-> [id |-> context.autograph.hawk_id,
                             key |-> context.autograph.hawk_secret],
                   json |-> <<[input |-> b64encode(jar_extractor.signature),
                               keyid |-> context.autograph.key_id,
                               options |-> [id |-> get_guid]]>>])
  /\ \E status \in {200, 300, 500}, body \in SignResponses :
       /\ resp' = [status |-> status, body |-> body]
       /\ IF raise_for_status(status)
          THEN UNCHANGED <<pc, result, signature>>
          ELSE IF Len(body) = 0
               THEN /\ Raise([type |-> "IndexError"])
                    /\ UNCHANGED signature
               ELSE /\ signature' = b64decode(body[1].signature)
                    /\ pc' = "make_signed"
                    /\ UNCHANGED result
  /\ UNCHANGED <<event, context, localfile, url, filename, response,
                 local_checksum, jar_extractor, signed_xpi, disk, handles, store>>

\* lines 173-187: the POST to {server_url}/sign/data, raise_for_status(),
\* signature = base64.b64decode(resp.json()[0]['signature'])
RequestsPost ==
  /\ pc = "post"
  /\ Call("POST", [url |-> urljoin_sign_data(context.autograph.server_url),
                   auth |-> [id |-> context.autograph.hawk_id,
                             key |-> context.autograph.hawk_secret],
                   json |-> <<[input |-> b64encode(jar_extractor.signature),
                               keyid |-> context.autograph.key_id,
                               options |-> [id |-> get_guid]]>>])
  /\ \E status \in {200, 300, 500}, body \in SignResponses :
       /\ resp' = [status |-> status, body |-> body]
       /\ IF raise_for_status(status)
          THEN /\ Raise([type |-> "HTTPError", status |-> status])
               /\ UNCHANGED signature
          ELSE IF Len(body) = 0
               THEN /\ Raise([type |-> "IndexError"])
                    /\ UNCHANGED signature
               ELSE /\ signature' = b64decode(body[1].signature)
                    /\ pc' = "make_signed"
                    /\ UNCHANGED result
  /\ UNCHANGED <<event, context, localfile, url, filename, response,
                 local_checksum, jar_extractor, signed_xpi, disk, handles, store>>

\* lines 194-198: jar_extractor.make_signed(signature, output_file,
\* sigpath="mozilla.rsa") writes the signed package to output_file
MakeSigned ==
  /\ pc = "make_signed"
  /\ Call("make_signed", output_file(localfile.name))
  /\ \/ /\ disk' = disk \cup {output_file(localfile.name)}
        /\ signed_xpi' = output_file(localfile.name)
        /\ pc' = "upload"
        /\ UNCHANGED result
     \/ /\ Raise([type |-> "PackagingError"])
        /\ UNCHANGED <<disk, signed_xpi>>
  /\ UNCHANGED <<event, context, localfile, url, filename, response,
                 local_checksum, jar_extractor, resp, signature, handles, store>>

\* the object put under the name of the signed file
put_object_signed_name(ctx, fname) == [Bucket |-> ctx.output_bucket, Key |-> output_file(fname)]

\* lines 92-93: s3.Bucket(context['output_bucket']).put_object(Body=..., Key=filename)
put_object_args(ctx, fname) == [Bucket |-> ctx.output_bucket, Key |-> fname]

\* lines 88 and 91-100: upload(context, file(signed_xpi), filename) opens
\* the signed file, puts it into the output bucket under Key=filename and
\* returns the location; S3 has no bucket with an empty name
upload ==
  /\ pc = "upload"
  /\ handles' = handles \cup {signed_xpi}
  /\ Call("put_object", put_object_args(context, filename))
  /\ \/ /\ context.output_bucket # <<>>
        /\ store' = store \cup {[Bucket |-> put_object_args(context, filename).Bucket,
                                 Key |-> put_object_args(context, filename).Key,
                                 Body |-> [package |-> localfile.content,
                                           signature |-> signature]]}
        /\ pc' = "returned"
        /\ result' = [uploaded |-> [bucket |-> context.output_bucket, key |-> filename]]
     \/ /\ Raise([type |-> "ClientError"])
        /\ UNCHANGED store
  /\ UNCHANGED <<event, context, localfile, url, filename, response,
                 local_checksum, jar_extractor, resp, signature, signed_xpi, disk>>

Next ==
  \/ LoadEvent
  \/ LoadContext
  \/ NamedTemporaryFile
  \/ RequestsGet
  \/ DeriveFilename
  \/ IterContent
  \/ RsplitKey
  \/ DownloadFileobj
  \/ VerifyChecksum
  \/ JarExtractor
  \/ RequestsPost
  \/ MakeSigned
  \/ upload

Spec == Init /\ [][Next]_vars

\* ------------------------------------------------------------ observations
Called(op) == \E i \in DOMAIN calls : calls[i].op = op

Terminated == pc \in {"returned", "raised"}

Raised(type) == pc = "raised" /\ result.raised.type = type

\* the digest of the bytes that were staged
StagedDigest == hexdigest(sha256(localfile.content))

\* line 129 has run
VerifyRan == local_checksum # None

\* lines 130-131 ended the run
VerifyFailed ==
  \/ Raised("KeyError")
  \/ Raised("UnboundLocalError")
  \/ Raised("ChecksumMatchError")

VerifySucceeded == VerifyRan /\ ~VerifyFailed

\* C1: a signing request, a signature embedding or an upload has happened
\* only if the request has a checksum and the SHA-256 digest of the staged
\* bytes was computed and found equal to it; so a run whose digest differs
\* from the checksum, or that has no checksum, never signs, embeds or uploads.
C1_SignOnlyVerified ==
  (Called("POST") \/ Called("make_signed") \/ Called("put_object")) =>
    /\ "checksum" \in DOMAIN event
    /\ local_checksum = StagedDigest
    /\ event["checksum"] = StagedDigest

C1_Witness ==
  /\ Called("POST")
  /\ url # None
  /\ localfile.content # <<>>

\* C2 as stated: verification succeeds exactly when the digest and the
\* checksum are equal up to the letter case of their hex digits.
C2_CaseInsensitive ==
  (VerifyRan /\ "checksum" \in DOMAIN event) =>
    (VerifySucceeded <=> Upper(local_checksum) = Upper(event["checksum"]))

\* C2 amended: verification succeeds exactly when the lower-case hex digest
\* and the checksum are the same string; a checksum that differs from the
\* digest in anything, the letter case of a hex digit included, ends the run
\* there without a signing request, with the checksum-mismatch error when
\* the package came from a url.
C2_ExactMatch ==
  (VerifyRan /\ "checksum" \in DOMAIN event) =>
    /\ local_checksum = StagedDigest
    /\ VerifySucceeded <=> local_checksum = event["checksum"]
    /\ local_checksum # event["checksum"] =>
         /\ pc = "raised"
         /\ ~Called("POST")
         /\ url # None => Raised("ChecksumMatchError")

C2_Witness ==
  /\ VerifyFailed
  /\ "checksum" \in DOMAIN event
  /\ event["checksum"] # local_checksum
  /\ Upper(event["checksum"]) = Upper(local_checksum)

\* C3: whenever the digest differs from the supplied checksum the run fails
\* with the checksum-mismatch error, which carries the expected checksum and
\* the actual digest, for a url source and for a {bucket, key} source alike.
C3_MismatchError ==
  (VerifyRan /\ "checksum" \in DOMAIN event /\ local_checksum # event["checksum"]) =>
    /\ Raised("ChecksumMatchError")
    /\ result.raised.expected_checksum = event["checksum"]
    /\ result.raised.actual_checksum = local_checksum

\* the source has neither a url nor both a bucket and a key
IncompleteSource ==
  /\ "source" \in DOMAIN event
  /\ "url" \notin DOMAIN event["source"]
  /\ ~({"bucket", "key"} \subseteq DOMAIN event["source"])

\* nothing was allocated and no collaborator was called
NoIO == calls = <<>> /\ disk = {} /\ handles = {} /\ store = {} /\ localfile = None

\* C4: a request whose source has neither a url nor a complete {bucket, key}
\* pair is rejected by validation and causes no I/O at all.
C4_IncompleteSourceRejected ==
  IncompleteSource =>
    /\ NoIO
    /\ pc = "load_event" \/ Raised("ValidationError")

C4_Witness ==
  /\ Raised("ValidationError")
  /\ IncompleteSource
  /\ DOMAIN event["source"] = {"bucket"}
  /\ Context(context)

\* the source has a url together with a bucket or a key
AmbiguousSource ==
  /\ "source" \in DOMAIN event
  /\ "url" \in DOMAIN event["source"]
  /\ DOMAIN event["source"] \cap {"bucket", "key"} # {}

\* C5: a request whose source populates a url together with a bucket or a
\* key is rejected by validation, and nothing is retrieved for it.
C5_ExactlyOneVariant ==
  AmbiguousSource =>
    /\ pc \in {"load_event", "load_context"} \/ Raised("ValidationError")
    /\ ~Called("GET")
    /\ ~Called("download_fileobj")

\* C6: a request without a checksum, or with the empty string as checksum,
\* is rejected by validation before any I/O.
C6_ChecksumRequired ==
  ("checksum" \notin DOMAIN event \/ event["checksum"] = <<>>) =>
    /\ NoIO
    /\ pc \in {"load_event", "load_context"} \/ Raised("ValidationError")

\* the context lacks autograph, one of its four fields, or the output
\* bucket: it is complete neither under the names of the given context nor
\* under the attribute names of the loaded one (loading omits what is missing)
ContextLacksField ==
  \/ "autograph" \notin DOMAIN context
  \/ /\ ~(/\ {"hawkId", "hawkSecret", "serverUrl", "keyId"} \subseteq DOMAIN context["autograph"]
          /\ "outputBucket" \in DOMAIN context)
     /\ ~(/\ {"hawk_id", "hawk_secret", "server_url", "key_id"} \subseteq DOMAIN context["autograph"]
          /\ "output_bucket" \in DOMAIN context)

\* the output bucket of the context, given or loaded, is the empty string
EmptyOutputBucket ==
  \/ "outputBucket" \in DOMAIN context /\ context["outputBucket"] = <<>>
  \/ "output_bucket" \in DOMAIN context /\ context["output_bucket"] = <<>>

\* C7 as stated: a context that lacks a signing-authority field, or whose
\* outputBucket is missing or empty, causes no I/O.
C7_EmptyBucketRejected ==
  (ContextLacksField \/ EmptyOutputBucket) => NoIO

\* C7 amended: a context that lacks autograph, one of the four
\* signing-authority fields or outputBucket is rejected by validation
\* before any I/O, also when the request is valid; and the context
\* validation rejects nothing else, so a present but empty outputBucket
\* passes it.
C7_MissingFieldRejected ==
  /\ ContextLacksField =>
       /\ NoIO
       /\ pc \in {"load_event", "load_context"} \/ Raised("ValidationError")
  /\ (Raised("ValidationError") /\ result.raised.schema = "Context") => ContextLacksField

C7_Witness ==
  /\ Raised("ValidationError")
  /\ result.raised.schema = "Context"
  /\ DOMAIN context = {"autograph", "outputBucket"}
  /\ DOMAIN context["autograph"] = {"hawkId", "hawkSecret", "serverUrl"}

\* C8 as stated: when the POST is answered with a status outside 200..299
\* the run fails and nothing is embedded or uploaded.
C8_Non2xxStops ==
  (resp # None /\ ~(200 <= resp.status /\ resp.status <= 299)) =>
    /\ pc = "raised"
    /\ ~Called("make_signed")
    /\ ~Called("put_object")

\* C8 amended: when the POST is answered with a 4xx or 5xx status the run
\* fails with the HTTP error, and no signature is embedded and nothing is
\* uploaded afterwards.
C8_ErrorStatusStops ==
  (resp # None /\ 400 <= resp.status /\ resp.status <= 599) =>
    /\ Raised("HTTPError")
    /\ ~Called("make_signed")
    /\ ~Called("put_object")
    /\ signed_xpi = None
    /\ store = {}

C8_Witness ==
  /\ resp # None
  /\ resp.status = 500
  /\ resp.body # <<>>
  /\ Raised("HTTPError")

\* the key and the bucket of the one object written to S3
Uploaded == {[bucket |-> o.Bucket, key |-> o.Key] : o \in store}

\* C9 as stated: on a successful run the key written and reported is the
\* derived filename with -signed before its extension, in the configured
\* output bucket.
C9_SignedKey ==
  pc = "returned" =>
    /\ result.uploaded = [bucket |-> context.output_bucket, key |-> output_file(filename)]
    /\ Uploaded = {result.uploaded}

\* C9 amended: on a successful run the key written and reported is the
\* filename derived at retrieval, unchanged (a.xpi gives key a.xpi); -signed
\* is inserted only into the name of the local signed file; the reported
\* bucket is the configured output bucket.
C9_UnchangedKey ==
  pc = "returned" =>
    /\ result.uploaded = [bucket |-> context.output_bucket, key |-> filename]
    /\ Uploaded = {result.uploaded}
    /\ signed_xpi = output_file(localfile.name)
    /\ url = None => filename = rsplit1(event["source"]["key"], "/")[2]
    /\ url # None =>
         filename = IF extract_response_filename(response).value # None
                    THEN extract_response_filename(response).value
                    ELSE rsplit1(strip(url, "/"), "/")[2]

C9_Witness ==
  /\ pc = "returned"
  /\ url = Url1
  /\ filename = <<"a", ".", "xpi">>
  /\ result.uploaded.key = <<"a", ".", "xpi">>
  /\ context.output_bucket = OutBucket

\* C10: when handle() has returned or raised, the staging file and the
\* signed output file have been released: no file object is open and no
\* file of the run is left on the disk.
C10_Released ==
  Terminated => handles = {} /\ disk = {}

\* the place of a position of handle() in the order of its statements
Position(p) ==
  CASE p = "load_event" -> 1 [] p = "load_context" -> 2 [] p = "tempfile" -> 3
    [] p = "get" -> 4 [] p = "s3" -> 4
    [] p = "filename" -> 5 [] p = "download" -> 5
    [] p = "write" -> 6 [] p = "checksum" -> 7 [] p = "jar" -> 8
    [] p = "post" -> 9 [] p = "make_signed" -> 10 [] p = "upload" -> 11
    [] p = "returned" -> 12 [] OTHER -> 0

\* the stage a position has completed: 0 none, 1 Validated, 2 Retrieved,
\* 3 Verified, 4 Signed(client), 5 Packaged, 6 Published, 7 Done
Stage(p) ==
  CASE p \in {"load_event", "load_context"} -> 0
    [] p \in {"tempfile", "get", "s3", "filename", "download", "write"} -> 1
    [] p = "checksum" -> 2
    [] p \in {"jar", "post"} -> 3
    [] p = "make_signed" -> 4
    [] p = "upload" -> 5
    [] p = "returned" -> 7
    [] OTHER -> 0

\* what a completed stage has done, and the one outcome of a run
StageDone ==
  /\ (pc # "raised" /\ Stage(pc) >= 1) => SignEvent(event) /\ "output_bucket" \in DOMAIN context
  /\ (pc # "raised" /\ Stage(pc) >= 2) => Called("GET") \/ Called("download_fileobj")
  /\ (pc # "raised" /\ Stage(pc) >= 3) =>
       "checksum" \in DOMAIN event /\ local_checksum = event["checksum"]
  /\ (pc # "raised" /\ Stage(pc) >= 4) => Called("POST") /\ signature # None
  /\ (pc # "raised" /\ Stage(pc) >= 5) => Called("make_signed") /\ signed_xpi # None
  /\ pc = "returned" => DOMAIN result = {"uploaded"} /\ store # {}
  /\ pc = "raised" => DOMAIN result = {"raised"} /\ store = {}
  /\ ~Terminated => result = None

\* a step of a run: never from a terminal state; to the failed state, or
\* forward by one statement (the chunk loop stays, the S3 branch has no
\* chunk loop) and by at most one stage, Published and Done being reached
\* together by the upload
StageStep ==
  /\ ~Terminated
  /\ \/ pc' = "raised"
     \/ /\ \/ Position(pc') = Position(pc) + 1
           \/ pc = "write" /\ pc' = "write"
           \/ pc = "download" /\ pc' = "checksum"
        /\ \/ Stage(pc') \in {Stage(pc), Stage(pc) + 1}
           \/ pc = "upload" /\ pc' = "returned" /\ store = {} /\ store' # {}

\* C11: every invocation passes the stages Validated, Retrieved, Verified,
\* Signed(client), Packaged, Published, Done in this order, none skipped or
\* repeated; a failure ends it in the failed state, from which nothing runs;
\* an invocation ends with a result or with an error, never both, and an
\* error leaves nothing uploaded.
C11_LinearStages == [](StageDone) /\ [][StageStep]_vars

C11_Witness ==
  /\ pc = "returned"
  /\ DOMAIN result = {"uploaded"}
  /\ Len(calls) = 5

\* how many calls of op were made
Count(op) == Cardinality({i \in DOMAIN calls : calls[i].op = op})

\* C12: an invocation sends at most one signing request and embeds at most
\* one signature, whatever fails: a failed request or a failed later stage
\* is not followed by a second request.
C12_AtMostOneSigning ==
  /\ Count("POST") <= 1
  /\ Count("make_signed") <= 1
  /\ signed_xpi = None => Cardinality(disk) <= 1
  /\ signed_xpi # None => disk = {localfile.name, signed_xpi}
  /\ (pc = "raised" /\ resp # None) => Count("POST") = 1

C12_Witness ==
  /\ Raised("PackagingError")
  /\ Count("POST") = 1
  /\ Count("make_signed") = 1

\* the last "/"-separated segment of s, trailing "/" aside; all of s when
\* it has no "/"
LastSegment(s) ==
  LET t == strip(s, "/")
      i == IF Positions(t, "/") = {} THEN 0 ELSE SetMax(Positions(t, "/"))
  IN SubSeq(t, i + 1, Len(t))

\* the header is attachment; filename=value
WellFormedDisposition(h) ==
  /\ "Content-Disposition" \in DOMAIN h
  /\ Len(h["Content-Disposition"]) > 5
  /\ SubSeq(h["Content-Disposition"], 1, 5) = <<"attachment", ";", " ", "filename", "=">>

\* the GET was answered without an error status and line 119 is behind
FilenameDerived ==
  /\ response # None
  /\ response.status < 400
  /\ pc # "filename"

\* C13: for a url source and every Content-Disposition header, filename
\* derivation does not fail: a well-formed attachment header gives its
\* unquoted filename, an absent or malformed one the last path segment of
\* the url.
C13_FilenameNeverFails ==
  FilenameDerived =>
    /\ ~Raised("ValueError")
    /\ filename =
         IF WellFormedDisposition(response.headers)
         THEN unquote(SubSeq(response.headers["Content-Disposition"], 6,
                             Len(response.headers["Content-Disposition"])))
         ELSE LastSegment(url)

\* nothing was staged or verified, and nothing signed, embedded or uploaded
NothingAfterGet ==
  /\ localfile.content = <<>>
  /\ local_checksum = None
  /\ ~Called("POST")
  /\ ~Called("make_signed")
  /\ ~Called("put_object")
  /\ store = {}

\* C14 as stated: when the GET is answered with a status outside 200..299,
\* retrieval fails before a byte is staged and nothing follows.
C14_Non2xxGetStops ==
  (response # None /\ ~(200 <= response.status /\ response.status <= 299)) =>
    /\ Raised("HTTPError")
    /\ NothingAfterGet

\* C14 amended: when the GET is answered with a 4xx or 5xx status,
\* retrieval fails with the HTTP error before a byte of the response is
\* written to the staging file, and no checksum verification, signing
\* request, signature embedding or upload follows.
C14_ErrorStatusGetStops ==
  (response # None /\ 400 <= response.status /\ response.status <= 599) =>
    /\ Raised("HTTPError")
    /\ result.raised.status = response.status
    /\ NothingAfterGet

C14_Witness ==
  /\ response # None
  /\ response.status = 404
  /\ response.sent # <<>>
  /\ Raised("HTTPError")
  /\ filename = None

\* the output store is written by the upload step alone, once, after
\* retrieval, verification, the signing request and the embedding succeeded
StoreWrite ==
  store' # store =>
    /\ pc = "upload"
    /\ pc' = "returned"
    /\ store = {}
    /\ Cardinality(store') = 1
    /\ Called("GET") \/ Called("download_fileobj")
    /\ "checksum" \in DOMAIN event
    /\ local_checksum = event["checksum"]
    /\ resp # None
    /\ resp.status < 400
    /\ signature # None
    /\ Called("make_signed")
    /\ signed_xpi \in disk

\* a run that failed before the upload has left the store as it was
StoreUntouched ==
  /\ Count("put_object") <= 1
  /\ ~Called("put_object") => store = {}
  /\ (pc = "raised" /\ signed_xpi = None) => ~Called("put_object") /\ store = {}

\* C15: the output store is written only by the publish step, at most once
\* per invocation and only after retrieval, checksum verification, the
\* signing request and signature embedding have all succeeded; an
\* invocation that fails at or before signature embedding leaves it
\* unchanged.
C15_OnlyPublisherWrites == [](StoreUntouched) /\ [][StoreWrite]_vars

C15_Witness ==
  /\ pc = "returned"
  /\ url = None
  /\ Cardinality(store) = 1
  /\ Count("put_object") = 1

\* the run took the {bucket, key} branch and lines 123-126 are behind
KeyDerived ==
  /\ Called("NamedTemporaryFile")
  /\ ~Truthy(event["source"], "url")
  /\ pc \notin {"s3", "download"}

\* C16: for a {bucket, key} source the derived filename is the last
\* "/"-separated segment of the key, the whole key when it has no "/", and
\* the object is then fetched from the blob store.
C16_KeyLastSegment ==
  KeyDerived =>
    /\ filename =
         LET k == event["source"]["key"]
             i == IF Positions(k, "/") = {} THEN 0 ELSE SetMax(Positions(k, "/"))
         IN SubSeq(k, i + 1, Len(k))
    /\ Called("download_fileobj")

\* C17: for a url source the chunks of the response body are appended to
\* the staging file in arrival order until the body is exhausted: what is
\* staged and what is still unread always make up the body sent, the staged
\* content is the whole body once the loop is left, and the digest compared
\* with the checksum is the digest of exactly these bytes, for every body
\* length.
C17_WholeBodyStaged ==
  (url # None /\ response # None) =>
    /\ localfile.content \o response.body = response.sent
    /\ pc = "write" => localfile.pos = Len(localfile.content)
    /\ (pc = "checksum" \/ VerifyRan) =>
         /\ response.body = <<>>
         /\ localfile.content = response.sent
    /\ VerifyRan => local_checksum = hexdigest(sha256(response.sent))

C17_Witness ==
  /\ url # None
  /\ VerifyRan
  /\ Len(response.sent) = CHUNK_SIZE + 1
  /\ response.sent[1] # response.sent[2]
  /\ localfile.content = response.sent

\* C18: after a successful verification the staged file is read from
\* offset 0 again, so the signing stage reads the whole package; the digest
\* itself is computed from offset 0, not from where the writes ended.
C18_RewoundAfterVerify ==
  /\ pc = "jar" => localfile.pos = 0
  /\ VerifyRan => local_checksum = hexdigest(sha256(localfile.content))
  /\ jar_extractor # None => jar_extractor.signature = <<"sf", sha256(localfile.content)>>

C18_Witness ==
  /\ pc = "jar"
  /\ localfile.pos = 0
  /\ Len(localfile.content) = 2
  /\ url # None

\* C19: an invocation uses one retrieval strategy: with a non-empty url in
\* the validated source only the HTTP GET of that url is made and the blob
\* store is never read, whatever bucket and key hold; without a url only
\* the blob-store read of {bucket, key} is made and no GET.
C19_OneRetrievalStrategy ==
  Called("NamedTemporaryFile") =>
    /\ Count("GET") + Count("download_fileobj") <= 1
    /\ Stage(pc) >= 2 => Count("GET") + Count("download_fileobj") = 1
    /\ Truthy(event["source"], "url") =>
         /\ ~Called("download_fileobj")
         /\ \A i \in DOMAIN calls :
              calls[i].op = "GET" => calls[i].arg = event["source"]["url"]
    /\ ~Truthy(event["source"], "url") =>
         /\ ~Called("GET")
         /\ \A i \in DOMAIN calls :
              calls[i].op = "download_fileobj" =>
                calls[i].arg = [bucket |-> event["source"]["bucket"],
                                key |-> event["source"]["key"]]

C19_Witness ==
  /\ pc = "checksum"
  /\ Called("GET")
  /\ {"bucket", "key"} \subseteq DOMAIN event["source"]
  /\ Truthy(event["source"], "bucket")

====
